---- MODULE Spec2Model ----
(***************************************************************************)
(* A model of humantime-serde: the serde field codec that writes a         *)
(* Duration through humantime's text form and a chrono DateTime through    *)
(* RFC 3339 (src/src/lib.rs, src/src/option.rs).                           *)
(*                                                                         *)
(* Text is a TLA+ string, taken apart with Head, Tail, SubSeq and Len; a   *)
(* character is a string of length one.  The two text libraries the crate  *)
(* calls (humantime, chrono) are modelled by what they compute, character  *)
(* by character, at the places the crate calls them.                       *)
(***************************************************************************)
EXTENDS Integers, Sequences, FiniteSets, TLC

VARIABLES
    pc,     \* the caller's position: "idle", "provided", "serialized", "deserialized"
    val,    \* the field the caller holds: [ty, opt, v], or NoVal
    given,  \* what the host text was written from (the harness's own reading of it)
    doc,    \* the host document value the serializer wrote / the deserializer reads
    entry,  \* the entry point that ran last
    res,    \* the last deserialize: [ty, opt, r, calls], or NoRes
    frame,  \* interleaved callers: each thread's call frame
    done    \* interleaved callers: each thread's last completed call

vars == <<pc, val, given, doc, entry, res, frame, done>>

(***************************************************************************)
(* Characters                                                              *)
(***************************************************************************)
Digits == {"0", "1", "2", "3", "4", "5", "6", "7", "8", "9"}

Lower == {"a", "b", "c", "d", "e", "f", "g", "h", "i", "j", "k", "l", "m",
          "n", "o", "p", "q", "r", "s", "t", "u", "v", "w", "x", "y", "z"}

Upper == {"A", "B", "C", "D", "E", "F", "G", "H", "I", "J", "K", "L", "M",
          "N", "O", "P", "Q", "R", "S", "T", "U", "V", "W", "X", "Y", "Z"}

Letters == Lower \cup Upper

Whitespace == {" ", "\t", "\n"}

DigitVal(c) ==
    CASE c = "0" -> 0 [] c = "1" -> 1 [] c = "2" -> 2 [] c = "3" -> 3
      [] c = "4" -> 4 [] c = "5" -> 5 [] c = "6" -> 6 [] c = "7" -> 7
      [] c = "8" -> 8 [] c = "9" -> 9

(***************************************************************************)
(* core::time::Duration and humantime                                      *)
(***************************************************************************)
NanosPerSec == 1000000000

\* Duration::new: whole seconds of the nanosecond argument carry into secs.
DurationNew(secs, nanos) ==
    [secs |-> secs + (nanos \div NanosPerSec), nanos |-> nanos % NanosPerSec]

\* humantime's fmt::item / item_plural: "<value><name>", a separating blank
\* once something was written, a plural "s" for year/month/day above one.
Item(acc, name, value, plural) ==
    IF value > 0
    THEN (IF acc = "" THEN "" ELSE acc \o " ")
         \o ToString(value) \o name
         \o (IF plural /\ value > 1 THEN "s" ELSE "")
    ELSE acc

\* humantime::format_duration(d).to_string()
format_duration(d) ==
    IF d.secs = 0 /\ d.nanos = 0 THEN "0s"
    ELSE
      LET years    == d.secs \div 31557600
          ydays    == d.secs % 31557600
          months   == ydays \div 2630016
          mdays    == ydays % 2630016
          days     == mdays \div 86400
          day_secs == mdays % 86400
          hours    == day_secs \div 3600
          minutes  == (day_secs % 3600) \div 60
          seconds  == day_secs % 60
          millis   == d.nanos \div 1000000
          micros   == (d.nanos \div 1000) % 1000
          nanosec  == d.nanos % 1000
          s1 == Item("", "year", years, TRUE)
          s2 == Item(s1, "month", months, TRUE)
          s3 == Item(s2, "day", days, TRUE)
          s4 == Item(s3, "h", hours, FALSE)
          s5 == Item(s4, "m", minutes, FALSE)
          s6 == Item(s5, "s", seconds, FALSE)
          s7 == Item(s6, "ms", millis, FALSE)
          s8 == Item(s7, "us", micros, FALSE)
      IN  Item(s8, "ns", nanosec, FALSE)

\* humantime's Parser::parse_unit: the unit's <<seconds, nanoseconds>> for n,
\* or <<>> for an unknown unit.
UnitOf(unit, n) ==
    CASE unit \in {"nanos", "nsec", "ns"}                       -> <<0, n>>
      [] unit \in {"usec", "us"}                                -> <<0, n * 1000>>
      [] unit \in {"millis", "msec", "ms"}                      -> <<0, n * 1000000>>
      [] unit \in {"seconds", "second", "secs", "sec", "s"}     -> <<n, 0>>
      [] unit \in {"minutes", "minute", "min", "mins", "m"}     -> <<n * 60, 0>>
      [] unit \in {"hours", "hour", "hr", "hrs", "h"}           -> <<n * 3600, 0>>
      [] unit \in {"days", "day", "d"}                          -> <<n * 86400, 0>>
      [] unit \in {"weeks", "week", "w"}                        -> <<n * 604800, 0>>
      [] unit \in {"months", "month", "M"}                      -> <<n * 2630016, 0>>
      [] unit \in {"years", "year", "y"}                        -> <<n * 31557600, 0>>
      [] OTHER                                                  -> <<>>

\* parse_unit's accumulation into Parser::current = <<sec, nsec>>.
AddUnit(cur, u) ==
    LET nsec == cur[2] + u[2]
        sec  == IF nsec > NanosPerSec THEN u[1] + (nsec \div NanosPerSec) ELSE u[1]
    IN  <<cur[1] + sec, IF nsec > NanosPerSec THEN nsec % NanosPerSec ELSE nsec>>

ParseErr == [ok |-> FALSE, secs |-> 0, nanos |-> 0]

RECURSIVE ParseFirstChar(_, _, _), ParseNumber(_, _, _), ParseUnit(_, _, _, _)

\* Parser::parse_first_char and what Parser::parse does with its answer: blanks
\* are skipped, a digit starts a number, anything else is NumberExpected; at
\* the end of the text the first call is Error::Empty, a later one the result.
ParseFirstChar(s, cur, first) ==
    IF s = ""
    THEN IF first THEN ParseErr
         ELSE [ok    |-> TRUE,
               secs  |-> DurationNew(cur[1], cur[2]).secs,
               nanos |-> DurationNew(cur[1], cur[2]).nanos]
    ELSE LET c == Head(s) IN
         CASE c \in Digits     -> ParseNumber(Tail(s), DigitVal(c), cur)
           [] c \in Whitespace -> ParseFirstChar(Tail(s), cur, first)
           [] OTHER            -> ParseErr

\* The number loop of Parser::parse: digits extend n, blanks are skipped, a
\* letter starts the unit; the end of the text leaves an empty (unknown) unit.
ParseNumber(s, n, cur) ==
    IF s = "" THEN ParseErr
    ELSE LET c == Head(s) IN
         CASE c \in Digits     -> ParseNumber(Tail(s), n * 10 + DigitVal(c), cur)
           [] c \in Whitespace -> ParseNumber(Tail(s), n, cur)
           [] c \in Letters    -> ParseUnit(Tail(s), n, c, cur)
           [] OTHER            -> ParseErr

\* The unit loop of Parser::parse: letters extend the unit; a digit closes it
\* and starts the next number; a blank or the end of the text closes it.
ParseUnit(s, n, unit, cur) ==
    LET u == UnitOf(unit, n) IN
    IF s = "" \/ Head(s) \in Whitespace \/ Head(s) \in Digits
    THEN IF u = <<>> THEN ParseErr
         ELSE IF s = "" THEN ParseFirstChar(s, AddUnit(cur, u), FALSE)
         ELSE IF Head(s) \in Digits
              THEN ParseNumber(Tail(s), DigitVal(Head(s)), AddUnit(cur, u))
              ELSE ParseFirstChar(Tail(s), AddUnit(cur, u), FALSE)
    ELSE IF Head(s) \in Letters THEN ParseUnit(Tail(s), n, unit \o Head(s), cur)
    ELSE ParseErr

\* humantime::parse_duration(v): [ok, secs, nanos].
parse_duration(v) == ParseFirstChar(v, <<0, 0>>, TRUE)

(***************************************************************************)
(* chrono::DateTime and RFC 3339                                           *)
(*                                                                         *)
(* A DateTime is [date, secs, frac, off]: the UTC date as days since       *)
(* 1970-01-01, the UTC second of the day, the nanosecond (1000000000 and   *)
(* above inside a leap second, as chrono stores it) and the offset from    *)
(* UTC in seconds (0 for DateTime<Utc>).                                   *)
(***************************************************************************)
SecsPerDay == 86400

IsLeapYear(y) == (y % 4 = 0 /\ y % 100 # 0) \/ y % 400 = 0

DaysInMonth(y, m) ==
    CASE m \in {1, 3, 5, 7, 8, 10, 12} -> 31
      [] m \in {4, 6, 9, 11}           -> 30
      [] OTHER                         -> IF IsLeapYear(y) THEN 29 ELSE 28

\* NaiveDate from year, month, day (proleptic Gregorian): days since 1970-01-01.
DaysFromCivil(y0, m, d) ==
    LET y   == IF m <= 2 THEN y0 - 1 ELSE y0
        era == y \div 400
        yoe == y - era * 400
        doy == ((153 * (IF m > 2 THEN m - 3 ELSE m + 9) + 2) \div 5) + d - 1
        doe == yoe * 365 + (yoe \div 4) - (yoe \div 100) + doy
    IN  era * 146097 + doe - 719468

\* The year, month and day of a NaiveDate.
CivilFromDays(z0) ==
    LET z   == z0 + 719468
        era == z \div 146097
        doe == z - era * 146097
        yoe == (doe - (doe \div 1460) + (doe \div 36524) - (doe \div 146096)) \div 365
        doy == doe - (365 * yoe + (yoe \div 4) - (yoe \div 100))
        mp  == (5 * doy + 2) \div 153
        d   == doy - ((153 * mp + 2) \div 5) + 1
        m   == IF mp < 10 THEN mp + 3 ELSE mp - 9
    IN  [y |-> yoe + era * 400 + (IF m <= 2 THEN 1 ELSE 0), m |-> m, d |-> d]

\* chrono's write_hundreds: two decimal digits.
Pad2(n) == IF n < 10 THEN "0" \o ToString(n) ELSE ToString(n)

\* The year of write_rfc3339: four digits inside 0..9999, else a sign and at
\* least four digits ("{:+05}").
YearText(y) ==
    LET a == IF y < 0 THEN -y ELSE y
        digits == IF a < 10 THEN "000" \o ToString(a)
                  ELSE IF a < 100 THEN "00" \o ToString(a)
                  ELSE IF a < 1000 THEN "0" \o ToString(a)
                  ELSE ToString(a)
    IN  IF y >= 0 /\ y <= 9999 THEN digits
        ELSE (IF y < 0 THEN "-" ELSE "+") \o digits

\* OffsetFormat { precision: Minutes, colons: Colon, allow_zulu: use_z }.format:
\* "Z" for a zero offset, else sign, hours and minutes, the seconds of the
\* offset rounded to the nearest minute.
OffsetText(off, use_z) ==
    IF use_z /\ off = 0 THEN "Z"
    ELSE LET a       == IF off < 0 THEN -off ELSE off
             minutes == (a + 30) \div 60
         IN  (IF off < 0 THEN "-" ELSE "+")
             \o Pad2(minutes \div 60) \o ":" \o Pad2(minutes % 60)

\* DateTime::naive_local: the UTC date and time moved by the offset.
NaiveLocal(t) ==
    LET total == t.secs + t.off
    IN  [date |-> t.date + (total \div SecsPerDay), secs |-> total % SecsPerDay,
         frac |-> t.frac]

\* DateTime::to_rfc3339_opts(SecondsFormat::Secs, use_z): date and time of day
\* in the value's own offset, no fraction, a leap second written as :60.
to_rfc3339_opts(t, use_z) ==
    LET l   == NaiveLocal(t)
        c   == CivilFromDays(l.date)
        sec == (l.secs % 60) + (IF l.frac >= NanosPerSec THEN 1 ELSE 0)
    IN  YearText(c.y) \o "-" \o Pad2(c.m) \o "-" \o Pad2(c.d) \o "T"
        \o Pad2(l.secs \div 3600) \o ":" \o Pad2((l.secs % 3600) \div 60)
        \o ":" \o Pad2(sec)
        \o OffsetText(t.off, use_z)

\* DateTime::to_utc: the same instant with the UTC offset.
to_utc(t) == [t EXCEPT !.off = 0]

NoTime == [ok |-> FALSE, date |-> 0, secs |-> 0, frac |-> 0, off |-> 0]

\* scan::number(s, k, k): the first k characters are digits.
IsNumber(s, k) ==
    Len(s) >= k /\ \A i \in 1..k : SubSeq(s, i, i) \in Digits

RECURSIVE NumberValue(_, _)
NumberValue(s, acc) ==
    IF s = "" THEN acc ELSE NumberValue(Tail(s), acc * 10 + DigitVal(Head(s)))

\* How many leading characters of s are digits.
RECURSIVE DigitRun(_)
DigitRun(s) == IF s = "" \/ Head(s) \notin Digits THEN 0 ELSE 1 + DigitRun(Tail(s))

RECURSIVE Pow10(_)
Pow10(k) == IF k = 0 THEN 1 ELSE 10 * Pow10(k - 1)

\* scan::nanosecond: up to nine digits scaled to nanoseconds, further digits
\* skipped.
Nanosecond(s) ==
    LET n == DigitRun(s)
        k == IF n > 9 THEN 9 ELSE n
    IN  NumberValue(SubSeq(s, 1, k), 0) * Pow10(9 - k)

\* scan::timezone_offset with a mandatory colon and "Z"/"z" allowed, followed
\* by parse_rfc3339's range check; s is everything after the time.  The
\* result is <<ok, offset seconds>>; nothing may follow the offset.
TimezoneOffset(s) ==
    IF s \in {"Z", "z"} THEN <<TRUE, 0>>
    ELSE IF /\ Len(s) = 6
            /\ Head(s) \in {"+", "-"}
            /\ IsNumber(SubSeq(s, 2, 3), 2)
            /\ SubSeq(s, 4, 4) = ":"
            /\ IsNumber(SubSeq(s, 5, 6), 2)
            /\ NumberValue(SubSeq(s, 5, 6), 0) <= 59
            /\ NumberValue(SubSeq(s, 2, 3), 0) <= 23
         THEN LET secs == NumberValue(SubSeq(s, 2, 3), 0) * 3600
                          + NumberValue(SubSeq(s, 5, 6), 0) * 60
              IN  <<TRUE, IF Head(s) = "-" THEN -secs ELSE secs>>
         ELSE <<FALSE, 0>>

\* DateTime::parse_from_rfc3339(v): [ok, date, secs, frac, off].  The fields
\* are read in order (format::parse::parse_rfc3339), checked
\* (Parsed::to_datetime) and the local time is moved back by the offset.
parse_from_rfc3339(v) ==
    IF ~ ( /\ Len(v) >= 20
           /\ IsNumber(SubSeq(v, 1, 4), 4)
           /\ SubSeq(v, 5, 5) = "-"
           /\ IsNumber(SubSeq(v, 6, 7), 2)
           /\ SubSeq(v, 8, 8) = "-"
           /\ IsNumber(SubSeq(v, 9, 10), 2)
           /\ SubSeq(v, 11, 11) \in {"T", "t", " "}
           /\ IsNumber(SubSeq(v, 12, 13), 2)
           /\ SubSeq(v, 14, 14) = ":"
           /\ IsNumber(SubSeq(v, 15, 16), 2)
           /\ SubSeq(v, 17, 17) = ":"
           /\ IsNumber(SubSeq(v, 18, 19), 2) )
    THEN NoTime
    ELSE
      LET y      == NumberValue(SubSeq(v, 1, 4), 0)
          m      == NumberValue(SubSeq(v, 6, 7), 0)
          d      == NumberValue(SubSeq(v, 9, 10), 0)
          hh     == NumberValue(SubSeq(v, 12, 13), 0)
          mi     == NumberValue(SubSeq(v, 15, 16), 0)
          ss     == NumberValue(SubSeq(v, 18, 19), 0)
          rest   == SubSeq(v, 20, Len(v))
          hasDot == Head(rest) = "."
          fdigs  == IF hasDot THEN DigitRun(Tail(rest)) ELSE 0
          nano   == IF hasDot THEN Nanosecond(Tail(rest)) ELSE 0
          tz     == TimezoneOffset(IF hasDot
                                   THEN SubSeq(rest, 2 + fdigs, Len(rest))
                                   ELSE rest)
      IN
        IF \/ hasDot /\ fdigs = 0
           \/ ~ tz[1]
           \/ m < 1 \/ m > 12
           \/ d < 1 \/ d > DaysInMonth(y, m)
           \/ hh > 23 \/ mi > 59 \/ ss > 60
        THEN NoTime
        ELSE
          LET local == hh * 3600 + mi * 60 + (IF ss = 60 THEN 59 ELSE ss)
              total == local - tz[2]
          IN  [ok   |-> TRUE,
               date |-> DaysFromCivil(y, m, d) + (total \div SecsPerDay),
               secs |-> total % SecsPerDay,
               frac |-> nano + (IF ss = 60 THEN NanosPerSec ELSE 0),
               off  |-> tz[2]]

(***************************************************************************)
(* The host framework (serde and a self-describing format such as JSON)    *)
(***************************************************************************)
Str(s) == [kind |-> "str", s |-> s]
Null   == [kind |-> "null", s |-> ""]
Num    == [kind |-> "num", s |-> ""]
Absent == [kind |-> "absent", s |-> ""]
NoDoc  == [kind |-> "none", s |-> ""]

None    == [some |-> FALSE]
Some(x) == [some |-> TRUE, v |-> x]

Ok(x)  == [ok |-> TRUE, val |-> x]
Err(e) == [ok |-> FALSE, err |-> e]

\* A call's outcome with the trace of the crate's scalar code it entered.
Ret(r, calls) == [r |-> r, calls |-> calls]

Types == {"Duration", "DateTime<Utc>", "DateTime<FixedOffset>"}

(***************************************************************************)
(* src/src/lib.rs                                                          *)
(***************************************************************************)
\* Visitor::expecting of the three visitors
expecting(ty) == IF ty = "Duration" THEN "a duration" ELSE "a timestamp"

\* E::invalid_value(de::Unexpected::Str(v), &self)
invalid_value(ty, v) ==
    [kind |-> "invalid_value", unexpected |-> v, expecting |-> expecting(ty)]

\* The Visitor's default visit_* methods: E::invalid_type(unexpected, &self)
invalid_type(ty, d) ==
    [kind |-> "invalid_type", unexpected |-> d.kind, expecting |-> expecting(ty)]

\* visit_str with the parse error swallowed: a default Duration instead of Err.
visit_str_Duration_Default(v) ==
    LET map(p) == IF p.ok THEN Ok([secs |-> p.secs, nanos |-> p.nanos])
                  ELSE Ok([secs |-> 0, nanos |-> 0])
    IN  map(parse_duration(v))

\* Serde<Duration>::deserialize::V::visit_str
visit_str_Duration(v) ==
    LET map_err(p) == IF p.ok THEN Ok([secs |-> p.secs, nanos |-> p.nanos])
                      ELSE Err(invalid_value("Duration", v))
    IN  map_err(parse_duration(v))

\* visit_str that insists on a zero offset instead of converting to UTC.
visit_str_Utc_Strict(v) ==
    LET map_err(p) ==
          IF p.ok /\ p.off = 0
          THEN Ok([date |-> p.date, secs |-> p.secs, frac |-> p.frac, off |-> 0])
          ELSE Err(invalid_value("DateTime<Utc>", v))
    IN  map_err(parse_from_rfc3339(v))

\* Serde<DateTime<Utc>>::deserialize::V::visit_str
visit_str_Utc(v) ==
    LET map_err(p) ==
          IF p.ok
          THEN Ok(to_utc([date |-> p.date, secs |-> p.secs, frac |-> p.frac, off |-> p.off]))
          ELSE Err(invalid_value("DateTime<Utc>", v))
    IN  map_err(parse_from_rfc3339(v))

\* Serde<DateTime<FixedOffset>>::deserialize::V::visit_str
visit_str_FixedOffset(v) ==
    LET map_err(p) ==
          IF p.ok
          THEN Ok([date |-> p.date, secs |-> p.secs, frac |-> p.frac, off |-> p.off])
          ELSE Err(invalid_value("DateTime<FixedOffset>", v))
    IN  map_err(parse_from_rfc3339(v))

visit_str(ty, v) ==
    CASE ty = "Duration"              -> visit_str_Duration(v)
      [] ty = "DateTime<Utc>"         -> visit_str_Utc(v)
      [] ty = "DateTime<FixedOffset>" -> visit_str_FixedOffset(v)

\* Serde(val) / Serde::from
Serde(x) == [inner |-> x]

\* Serde::into_inner
into_inner(w) == w.inner

\* Result::map(Serde)
map_Serde(r) == IF r.ok THEN Ok(Serde(r.val)) ELSE r

\* Result::map(Serde::into_inner)
map_into_inner(r) == IF r.ok THEN Ok(into_inner(r.val)) ELSE r

\* Result::map(Some)
map_Some(r) == IF r.ok THEN Ok(Some(r.val)) ELSE r

\* d.deserialize_str(V): the host hands a string to visit_str; any other
\* value reaches one of the visitor's default methods.
deserialize_str(ty, d) ==
    IF d.kind = "str" THEN Ret(visit_str(ty, d.s), <<"visit_str">>)
    ELSE Ret(Err(invalid_type(ty, d)), <<>>)

\* impl Deserialize for Serde<Duration>, Serde<DateTime<Utc>>,
\* Serde<DateTime<FixedOffset>>: d.deserialize_str(V).map(Serde)
Serde_deserialize(ty, d) ==
    LET map(got) == Ret(map_Serde(got.r), <<"scalar">> \o got.calls)
    IN  map(deserialize_str(ty, d))

\* serde's Option<Serde<T>>::deserialize: the host's null is None, anything
\* else is Some of Serde<T>::deserialize.
Option_deserialize(ty, d) ==
    IF d.kind = "null" THEN Ret(Ok(None), <<>>)
    ELSE LET map(got) == Ret(map_Some(got.r), got.calls)
         IN  map(Serde_deserialize(ty, d))

\* Serde<Option<...>>::deserialize with a failed decode turned into absence.
SerdeOption_deserialize_ErrIsNone(ty, d) ==
    LET map(got) ==
          IF ~ got.r.ok THEN Ret(Ok(Serde(None)), got.calls)
          ELSE IF got.r.val.some
               THEN Ret(Ok(Serde(Some(got.r.val.v.inner))), got.calls)
               ELSE Ret(Ok(Serde(None)), got.calls)
    IN  map(Option_deserialize(ty, d))

\* Serde<Option<...>>::deserialize that runs the scalar decode on null too.
SerdeOption_deserialize_NullIsScalar(ty, d) ==
    LET map(got) ==
          IF got.r.ok THEN Ret(Ok(Serde(Some(got.r.val.inner))), got.calls) ELSE got
    IN  map(Serde_deserialize(ty, d))

\* impl Deserialize for Serde<Option<...>>
SerdeOption_deserialize(ty, d) ==
    LET map(got) ==
          IF ~ got.r.ok THEN got
          ELSE IF got.r.val.some
               THEN Ret(Ok(Serde(Some(got.r.val.v.inner))), got.calls)
               ELSE Ret(Ok(Serde(None)), got.calls)
    IN  map(Option_deserialize(ty, d))

\* pub fn deserialize: Serde::deserialize(d).map(Serde::into_inner)
deserialize(ty, opt, d) ==
    LET map(got) == Ret(map_into_inner(got.r), got.calls)
    IN  map(IF opt THEN SerdeOption_deserialize(ty, d) ELSE Serde_deserialize(ty, d))

\* Serde<&Duration>::serialize writing whole seconds only.
SerdeRef_serialize_Duration_Secs(v) == Str(format_duration([v EXCEPT !.nanos = 0]))

\* impl Serialize for Serde<&Duration>
SerdeRef_serialize_Duration(v) == Str(format_duration(v))

\* Serde<Duration>::serialize writing the number of seconds instead of
\* humantime's text.
Serde_serialize_Duration_Plain(v) == Str(ToString(v.secs) \o "s")

\* impl Serialize for Serde<Duration>
Serde_serialize_Duration(v) == Str(format_duration(v))

\* Serde<&DateTime<Utc>>::serialize with use_z = false.
SerdeRef_serialize_Utc_NoZ(v) == Str(to_rfc3339_opts(v, FALSE))

\* impl Serialize for Serde<&DateTime<Utc>>
SerdeRef_serialize_Utc(v) == Str(to_rfc3339_opts(v, TRUE))

\* Serde<&DateTime<FixedOffset>>::serialize normalising to UTC first.
SerdeRef_serialize_FixedOffset_Utc(v) == Str(to_rfc3339_opts(to_utc(v), TRUE))

\* impl Serialize for Serde<&DateTime<FixedOffset>>
SerdeRef_serialize_FixedOffset(v) == Str(to_rfc3339_opts(v, TRUE))

\* impl Serialize for Serde<DateTime<Utc>>
Serde_serialize_Utc(v) == Str(to_rfc3339_opts(v, TRUE))

\* impl Serialize for Serde<DateTime<FixedOffset>>
Serde_serialize_FixedOffset(v) == Str(to_rfc3339_opts(v, TRUE))

SerdeRef_serialize(ty, v) ==
    CASE ty = "Duration"              -> SerdeRef_serialize_Duration(v)
      [] ty = "DateTime<Utc>"         -> SerdeRef_serialize_Utc(v)
      [] ty = "DateTime<FixedOffset>" -> SerdeRef_serialize_FixedOffset(v)

Serde_serialize(ty, v) ==
    CASE ty = "Duration"              -> Serde_serialize_Duration(v)
      [] ty = "DateTime<Utc>"         -> Serde_serialize_Utc(v)
      [] ty = "DateTime<FixedOffset>" -> Serde_serialize_FixedOffset(v)

\* impl Serialize for Serde<&Option<...>>: serialize_some(&Serde(x)) hands the
\* owning wrapper back to the serializer; serialize_none is the host's null.
SerdeRefOption_serialize(ty, o) ==
    IF o.some THEN Serde_serialize(ty, o.v) ELSE Null

\* impl Serialize for Serde<Option<...>>: Serde(&self.0).serialize(serializer)
SerdeOption_serialize(ty, o) == SerdeRefOption_serialize(ty, o)

\* pub fn serialize: Serde::from(d).serialize(s), d a reference
serialize(ty, opt, v) ==
    IF opt THEN SerdeRefOption_serialize(ty, v) ELSE SerdeRef_serialize(ty, v)

(***************************************************************************)
(* src/src/option.rs                                                       *)
(***************************************************************************)
\* option::serialize: d.as_ref().map(Into::into) is an Option<Serde<&T>>, which
\* serde writes as serialize_some(wrapper) or serialize_none.
option_serialize(ty, o) ==
    LET nested == IF o.some THEN Some(Serde(o.v)) ELSE None
    IN  IF nested.some THEN SerdeRef_serialize(ty, nested.v.inner) ELSE Null

\* option::deserialize with the error of the scalar decode dropped.
option_deserialize_Lenient(ty, d) ==
    LET map(got) ==
          IF got.r.ok
          THEN Ret(Ok(IF got.r.val.some THEN Some(into_inner(got.r.val.v)) ELSE None),
                   got.calls)
          ELSE Ret(Ok(None), got.calls)
    IN  map(Option_deserialize(ty, d))

\* option::deserialize: Option<Serde<T>>::deserialize(d)?, then
\* got.map(Serde::into_inner)
option_deserialize(ty, d) ==
    LET map(got) ==
          IF ~ got.r.ok THEN got
          ELSE Ret(Ok(IF got.r.val.some THEN Some(into_inner(got.r.val.v)) ELSE None),
                   got.calls)
    IN  map(Option_deserialize(ty, d))

(***************************************************************************)
(* #[serde(with = "...", default)] on an Option field, as the crate's      *)
(* tests and documentation declare it: a field missing from the document   *)
(* never reaches the codec; the field takes Default::default(), or, for a  *)
(* field without `default`, the derive reports the missing field.          *)
(***************************************************************************)
field_deserialize(opt, d, got) ==
    IF d.kind = "absent"
    THEN IF opt THEN Ret(Ok(None), <<>>)
         ELSE Ret(Err([kind |-> "missing_field", unexpected |-> "", expecting |-> ""]), <<>>)
    ELSE got

(***************************************************************************)
(* Values the caller may hold                                              *)
(***************************************************************************)
MaxYears == 2
MaxDays == 1
NThreads == 2

SecsRemainders ==
    {0, 15, 59, 3600, 86399, 2630016, 5522893, 31557599}

NanosSet == {0, 1, 1002003, 15000000, 999999999}

Durations ==
    { [secs |-> y * 31557600 + r, nanos |-> n] :
        y \in 0..MaxYears, r \in SecsRemainders, n \in NanosSet }

\* 0001-01-01, 2016-02-29, 2018-05-11, 9999-12-01
BaseDays == {-719162, 16860, 17662, 2932866}

Dates == { b + k : b \in BaseDays, k \in 0..MaxDays }

DaySecs == {0, 66510, 86399}

Fracs(secs) ==
    {0, 500000000, 999999999}
    \cup (IF secs % 60 = 59 THEN {1000000000, 1500000000} ELSE {})

Offsets == {0, 7200, 19800, -86340, 7230, -20}

UtcTimes ==
    UNION { { [date |-> d, secs |-> s, frac |-> f, off |-> 0] : f \in Fracs(s) } :
            d \in Dates, s \in DaySecs }

\* A leap second is the 60th second of a minute of the local time as well.
FixedOffsetTimes ==
    { x \in { [t EXCEPT !.off = o] : t \in UtcTimes, o \in Offsets } :
        x.frac >= NanosPerSec => x.off % 60 = 0 }

ValuesOf(ty) ==
    CASE ty = "Duration"              -> Durations
      [] ty = "DateTime<Utc>"         -> UtcTimes
      [] ty = "DateTime<FixedOffset>" -> FixedOffsetTimes

NoVal == [ty |-> "none", opt |-> FALSE]

\* Duration::from_secs(15)
FifteenSeconds == [secs |-> 15, nanos |-> 0]

\* 2018-05-11T18:28:30+02:00
May2018 == [date |-> 17662, secs |-> 59310, frac |-> 0, off |-> 7200]

Fields ==
    UNION { { [ty |-> ty, opt |-> FALSE, v |-> x] : x \in ValuesOf(ty) }
            \cup { [ty |-> ty, opt |-> TRUE, v |-> Some(x)] : x \in ValuesOf(ty) }
            \cup { [ty |-> ty, opt |-> TRUE, v |-> None] } : ty \in Types }

(***************************************************************************)
(* Documents the host may present, each with the harness's own reading of  *)
(* it: the value the text stands for, or "junk" for text that is neither a *)
(* duration nor a timestamp.                                               *)
(***************************************************************************)
NoGiven == [kind |-> "none"]
Junk    == [kind |-> "junk"]

GivenDuration(s, secs, nanos) ==
    [doc |-> Str(s), given |-> [kind |-> "duration", v |-> [secs |-> secs, nanos |-> nanos]]]

DurationInputs ==
    { GivenDuration("15 seconds", 15, 0),
      GivenDuration("15s", 15, 0),
      GivenDuration("2 days 3h", 183600, 0),
      GivenDuration("1h30m", 5400, 0),
      GivenDuration("1year 1month", 34187616, 0),
      GivenDuration("1ms 1us 1ns", 0, 1001001),
      GivenDuration("2weeks 1500ms", 1209601, 500000000),
      GivenDuration("0s", 0, 0) }

JunkInputs ==
    { [doc |-> Str(s), given |-> Junk] :
        s \in { "not a duration", "not a date", "", "15", "1.5s", "5 parsecs", "-5s",
                "2018-05-11T18:28:30", "2018-13-11T18:28:30Z", "2018-02-29T00:00:00Z",
                "2018-05-11T24:00:00Z", "2018-05-11T18:28:30+0200",
                "2018-05-11T18:28:30Zjunk", "2018-05-11T18:28:30.Z",
                "2018-05-11T18:28:30+24:00" } }

\* The calendar days the timestamp texts name, with their day numbers.
GivenDays ==
    { <<"2018-05-11", 17662>>, <<"2016-02-29", 16860>> }

\* <<text, local second of the day, leap second>>
GivenTimes ==
    { <<"18:28:30", 66510, FALSE>>, <<"00:00:00", 0, FALSE>>,
      <<"23:59:59", 86399, FALSE>>, <<"23:59:60", 86399, TRUE>> }

GivenFracs == { <<"", 0>>, <<".5", 500000000>>, <<".123456789123", 123456789>> }

GivenOffsets ==
    { <<"Z", 0>>, <<"z", 0>>, <<"+02:00", 7200>>,
      <<"-02:00", -7200>>, <<"+05:30", 19800>>, <<"-23:59", -86340>> }

\* The instant a timestamp text stands for: its local time minus its offset.
GivenTimestamp(d, t, f, o) ==
    LET total == t[2] - o[2]
    IN  [doc   |-> Str(d[1] \o "T" \o t[1] \o f[1] \o o[1]),
         given |-> [kind |-> "timestamp",
                    v |-> [date |-> d[2] + (total \div SecsPerDay),
                           secs |-> total % SecsPerDay,
                           frac |-> f[2] + (IF t[3] THEN NanosPerSec ELSE 0),
                           off  |-> o[2]]]]

TimestampInputs ==
    { GivenTimestamp(d, t, f, o) :
        d \in GivenDays, t \in GivenTimes, f \in GivenFracs, o \in GivenOffsets }

HostInputs ==
    DurationInputs \cup TimestampInputs \cup JunkInputs
    \cup { [doc |-> d, given |-> NoGiven] : d \in {Null, Num, Absent} }

NoRes == [ty |-> "none", opt |-> FALSE]

(***************************************************************************)
(* The sequential caller: one struct field, written and read back          *)
(***************************************************************************)
Threads == 1..NThreads

NoCall    == [op |-> "none"]
NoRet     == [none |-> TRUE]
IdleFrame == [pc |-> "idle", call |-> NoCall, ret |-> NoRet]
NotDone   == [call |-> NoCall, result |-> NoRet]

Init ==
    /\ entry = "none"
    /\ res = NoRes
    /\ frame = [t \in Threads |-> IdleFrame]
    /\ done = [t \in Threads |-> NotDone]
    /\ \/ /\ pc = "idle"
          /\ val \in Fields
          /\ given = NoGiven
          /\ doc = NoDoc
       \/ /\ pc = "provided"
          /\ val = NoVal
          /\ \E h \in HostInputs : given = h.given /\ doc = h.doc

\* serialize(&foo.time, serializer)
Serialize ==
    /\ pc \in {"idle", "serialized"}
    /\ val # NoVal
    /\ doc' = serialize(val.ty, val.opt, val.v)
    /\ entry' = "serialize"
    /\ pc' = "serialized"
    /\ UNCHANGED <<val, given, res, frame, done>>

\* option::serialize(&foo.time, serializer)
OptionSerialize ==
    /\ pc \in {"idle", "serialized"}
    /\ val # NoVal
    /\ val.opt
    /\ doc' = option_serialize(val.ty, val.v)
    /\ entry' = "option::serialize"
    /\ pc' = "serialized"
    /\ UNCHANGED <<val, given, res, frame, done>>

\* Serde(foo.time).serialize(serializer): the owning wrapper
SerdeSerialize ==
    /\ pc \in {"idle", "serialized"}
    /\ val # NoVal
    /\ doc' = IF val.opt THEN SerdeOption_serialize(val.ty, val.v)
                         ELSE Serde_serialize(val.ty, val.v)
    /\ entry' = "Serde::serialize"
    /\ pc' = "serialized"
    /\ UNCHANGED <<val, given, res, frame, done>>

\* deserialize::<T, _>(deserializer) for a field of type ty or Option<ty>
Deserialize ==
    /\ pc \in {"provided", "serialized", "deserialized"}
    /\ \E ty \in Types, opt \in BOOLEAN :
         LET field(got) == res' = [ty |-> ty, opt |-> opt, r |-> got.r, calls |-> got.calls]
         IN  field(field_deserialize(opt, doc, deserialize(ty, opt, doc)))
    /\ entry' = "deserialize"
    /\ pc' = "deserialized"
    /\ UNCHANGED <<val, given, doc, frame, done>>

\* option::deserialize::<T, _>(deserializer) for a field of type Option<ty>
OptionDeserialize ==
    /\ pc \in {"provided", "serialized", "deserialized"}
    /\ \E ty \in Types :
         LET field(got) == res' = [ty |-> ty, opt |-> TRUE, r |-> got.r, calls |-> got.calls]
         IN  field(field_deserialize(TRUE, doc, option_deserialize(ty, doc)))
    /\ entry' = "option::deserialize"
    /\ pc' = "deserialized"
    /\ UNCHANGED <<val, given, doc, frame, done>>

\* The decoded struct is kept: its field is the value the caller now holds.
Adopt ==
    /\ pc = "deserialized"
    /\ res.r.ok
    /\ val' = [ty |-> res.ty, opt |-> res.opt, v |-> res.r.val]
    /\ pc' = "idle"
    /\ doc' = NoDoc
    /\ res' = NoRes
    /\ entry' = "none"
    /\ UNCHANGED <<given, frame, done>>

\* Serde::from(v).into_inner()
WrapUnwrap ==
    /\ pc = "idle"
    /\ val # NoVal
    /\ val' = [val EXCEPT !.v = into_inner(Serde(val.v))]
    /\ entry' = "into_inner"
    /\ UNCHANGED <<pc, given, doc, res, frame, done>>

Next ==
    \/ Serialize
    \/ OptionSerialize
    \/ SerdeSerialize
    \/ Deserialize
    \/ OptionDeserialize
    \/ Adopt
    \/ WrapUnwrap

Spec == Init /\ [][Next]_vars

(***************************************************************************)
(* Interleaved callers: every entry point takes its input by argument and  *)
(* returns its result by value; what a call computes lives in that call's  *)
(* own frame until it returns.                                             *)
(***************************************************************************)
ThreadCalls ==
    { [op |-> "serialize", ty |-> "Duration", opt |-> FALSE, arg |-> FifteenSeconds],
      [op |-> "deserialize", ty |-> "Duration", opt |-> FALSE, arg |-> Str("15 seconds")],
      [op |-> "deserialize", ty |-> "Duration", opt |-> FALSE, arg |-> Str("not a duration")],
      [op |-> "option::deserialize", ty |-> "DateTime<Utc>", opt |-> TRUE,
       arg |-> Str("2018-05-11T18:28:30+02:00")],
      [op |-> "option::serialize", ty |-> "DateTime<FixedOffset>", opt |-> TRUE,
       arg |-> Some(May2018)] }

\* What a call returns to its caller.
RunCall(c) ==
    CASE c.op = "serialize"           -> Ok(serialize(c.ty, c.opt, c.arg))
      [] c.op = "option::serialize"   -> Ok(option_serialize(c.ty, c.arg))
      [] c.op = "deserialize"         -> deserialize(c.ty, c.opt, c.arg).r
      [] c.op = "option::deserialize" -> option_deserialize(c.ty, c.arg).r

\* One buffer shared by every call instead of the call's own locals.
Slot_Shared(t) == 1

\* Where thread t's running call keeps what it computes: its own frame.
Slot(t) == t

InitThreads ==
    /\ pc = "idle"
    /\ val = NoVal
    /\ given = NoGiven
    /\ doc = NoDoc
    /\ entry = "none"
    /\ res = NoRes
    /\ frame = [t \in Threads |-> IdleFrame]
    /\ done = [t \in Threads |-> NotDone]

\* Thread t enters an entry point with its own argument.
Call(t) ==
    /\ frame[t].pc = "idle"
    /\ \E c \in ThreadCalls :
         frame' = [frame EXCEPT ![t] = [pc |-> "called", call |-> c, ret |-> NoRet]]
    /\ UNCHANGED <<pc, val, given, doc, entry, res, done>>

\* The body of the entry point runs: the conversion, into the call's locals.
Run(t) ==
    /\ frame[t].pc = "called"
    /\ frame' = [frame EXCEPT ![Slot(t)].ret = RunCall(frame[t].call),
                              ![t].pc = "ran"]
    /\ UNCHANGED <<pc, val, given, doc, entry, res, done>>

\* The call returns its value and its frame is gone.
Return(t) ==
    /\ frame[t].pc = "ran"
    /\ done' = [done EXCEPT ![t] = [call   |-> frame[t].call,
                                    result |-> frame[Slot(t)].ret]]
    /\ frame' = [frame EXCEPT ![t] = IdleFrame]
    /\ UNCHANGED <<pc, val, given, doc, entry, res>>

NextThreads == \E t \in Threads : Call(t) \/ Run(t) \/ Return(t)

SpecThreads == InitThreads /\ [][NextThreads]_vars
(***************************************************************************)
(* Properties                                                              *)
(***************************************************************************)
Timestamps == {"DateTime<Utc>", "DateTime<FixedOffset>"}

\* The document read by the last deserialize is what a serialize wrote for val.
ReadBack == pc = "deserialized" /\ val # NoVal

\* The document read by the last deserialize is the host's own text.
ReadHost == pc = "deserialized" /\ val = NoVal

\* The external parser of type ty rejects text s.
Rejects(ty, s) ==
    IF ty = "Duration" THEN ~ parse_duration(s).ok ELSE ~ parse_from_rfc3339(s).ok

\* The harness reads the given text as a value of type ty.
GivenIs(ty) ==
    \/ given.kind = "duration" /\ ty = "Duration"
    \/ given.kind = "timestamp" /\ ty \in Timestamps

\* The value of type ty the given text stands for.
GivenAs(ty) == IF ty = "DateTime<Utc>" THEN [given.v EXCEPT !.off = 0] ELSE given.v

\* A timestamp with its sub-second part dropped (a leap second stays one).
WholeSecond(t) ==
    [t EXCEPT !.frac = IF t.frac >= NanosPerSec THEN NanosPerSec ELSE 0]

LastChar(s) == SubSeq(s, Len(s), Len(s))

\* C1: a Duration written by serialize and read back by deserialize is the
\* same Duration, seconds and nanoseconds; "15 seconds" decodes to exactly
\* 15 s, every duration text decodes to the duration it stands for, and 15 s
\* encodes as exactly "15s".
C1_DurationRoundTrip ==
    /\ ( /\ ReadBack
         /\ val.ty = "Duration" /\ ~ val.opt
         /\ res.ty = "Duration" /\ ~ res.opt )
       => res.r = Ok(val.v)
    /\ ( /\ ReadHost
         /\ given.kind = "duration"
         /\ res.ty = "Duration" /\ ~ res.opt )
       => res.r = Ok(given.v)
    /\ ( /\ pc = "serialized"
         /\ val = [ty |-> "Duration", opt |-> FALSE, v |-> FifteenSeconds] )
       => doc = Str("15s")

C1_Witness ==
    /\ ReadBack
    /\ entry = "deserialize"
    /\ val.ty = "Duration" /\ ~ val.opt
    /\ val.v.secs > 31557600 /\ val.v.nanos = 1002003
    /\ res.ty = "Duration" /\ ~ res.opt
    /\ res.r.ok

\* C2 as stated: a timestamp written by serialize and read back into the same
\* type is the same value, also when its sub-second part is not zero.
C2_TimestampRoundTrip_AsStated ==
    ( /\ ReadBack
      /\ val.ty \in Timestamps /\ ~ val.opt
      /\ res.ty = val.ty /\ ~ res.opt )
    => res.r = Ok(val.v)

\* C2: a timestamp whose offset is a whole number of minutes, written by
\* serialize and read back into the same type, comes back with the same
\* offset and with its sub-second part dropped: the same instant exactly when
\* it had no sub-second part.
C2_TimestampRoundTrip ==
    ( /\ ReadBack
      /\ val.ty \in Timestamps /\ ~ val.opt
      /\ val.v.off % 60 = 0
      /\ res.ty = val.ty /\ ~ res.opt )
    => /\ res.r = Ok(WholeSecond(val.v))
       /\ (val.v.frac % NanosPerSec = 0 => res.r = Ok(val.v))

C2_Witness ==
    /\ ReadBack
    /\ val.ty = "DateTime<FixedOffset>" /\ ~ val.opt
    /\ val.v.off = 19800 /\ val.v.frac = 0
    /\ res.ty = val.ty /\ ~ res.opt
    /\ res.r = Ok(val.v)

\* C3: a string the external parser rejects makes deserialize fail with an
\* invalid-value error that carries exactly that string and "a duration" or
\* "a timestamp"; text that is no duration or no timestamp is so rejected,
\* and no value is returned for it.
C3_RejectedIsError ==
    ( /\ pc = "deserialized"
      /\ doc.kind = "str"
      /\ Rejects(res.ty, doc.s) \/ (ReadHost /\ ~ GivenIs(res.ty)) )
    => /\ ~ res.r.ok
       /\ res.r.err = [kind       |-> "invalid_value",
                       unexpected |-> doc.s,
                       expecting  |-> IF res.ty = "Duration" THEN "a duration"
                                                             ELSE "a timestamp"]

C3_Witness ==
    /\ pc = "deserialized"
    /\ entry = "deserialize"
    /\ doc = Str("not a duration")
    /\ res.ty = "Duration" /\ ~ res.opt
    /\ ~ res.r.ok

C5_OptionalDecode ==
    /\ (pc = "deserialized" /\ res.opt)
       => /\ (\E i \in 1..Len(res.calls) : res.calls[i] = "scalar")
             <=> doc.kind \notin {"null", "absent"}
          /\ (doc.kind = "str" /\ Rejects(res.ty, doc.s))
             => /\ ~ res.r.ok
                /\ res.r.err = invalid_value(res.ty, doc.s)
          /\ (doc.kind = "str" /\ ~ Rejects(res.ty, doc.s))
             => /\ res.r.ok
                /\ res.r.val = Some(visit_str(res.ty, doc.s).val)
          /\ (ReadHost /\ GivenIs(res.ty))
             => res.r = Ok(Some(GivenAs(res.ty)))
    /\ (pc = "serialized" /\ val.opt /\ val.v.some)
       => doc = serialize(val.ty, FALSE, val.v.v)

C5_Witness ==
    /\ pc = "deserialized"
    /\ entry = "deserialize"
    /\ doc = Str("not a date")
    /\ res.ty = "DateTime<Utc>" /\ res.opt
    /\ ~ res.r.ok
    /\ res.calls = <<"scalar", "visit_str">>

\* The timestamp a serialize call was given (a scalar or the content of Some).
Written == IF val.opt THEN val.v.v ELSE val.v

C7_UtcDecodePermissive ==
    /\ ( /\ ReadHost
         /\ given.kind = "timestamp"
         /\ res.ty \in Timestamps /\ ~ res.opt )
       => /\ res.r.ok
          /\ res.r.val.date = given.v.date
          /\ res.r.val.secs = given.v.secs
          /\ res.r.val.frac = given.v.frac
          /\ res.r.val.off = (IF res.ty = "DateTime<Utc>" THEN 0 ELSE given.v.off)
    /\ ( /\ pc = "serialized"
         /\ given.kind = "timestamp"
         /\ val.ty = "DateTime<Utc>" )
       => LET back == parse_from_rfc3339(doc.s)
          IN  /\ LastChar(doc.s) = "Z"
              /\ back.ok
              /\ back.date = given.v.date /\ back.secs = given.v.secs
              /\ back.off = 0

C7_Witness ==
    /\ pc = "serialized"
    /\ given.kind = "timestamp"
    /\ given.v.off = 7200
    /\ val.ty = "DateTime<Utc>" /\ ~ val.opt
    /\ doc = Str("2018-05-11T16:28:30Z")

\* C8: Serde::from(v).into_inner() is v, and the owning wrapper Serde(v)
\* writes exactly what the borrowing wrapper Serde(&v) of serialize writes,
\* a string or null.
C8_WrapperTransparent ==
    [][ /\ entry' = "into_inner" => val' = val
        /\ ( /\ pc = "serialized" /\ pc' = "serialized"
             /\ {entry, entry'} = {"serialize", "Serde::serialize"} )
           => doc' = doc ]_vars

C8_Witness ==
    /\ pc = "serialized"
    /\ entry = "Serde::serialize"
    /\ val.ty = "Duration" /\ val.opt /\ val.v.some
    /\ val.v.v.nanos = 1002003
    /\ doc.kind = "str"

C10_OptionEntriesAgree ==
    [][ /\ ( /\ pc = "serialized" /\ pc' = "serialized"
             /\ val.opt
             /\ {entry, entry'} = {"serialize", "option::serialize"} )
           => doc' = doc
        /\ ( /\ pc = "deserialized" /\ pc' = "deserialized"
             /\ res.opt /\ res'.opt /\ res'.ty = res.ty
             /\ {entry, entry'} = {"deserialize", "option::deserialize"} )
           => res'.r = res.r ]_vars

C10_Witness ==
    /\ pc = "deserialized"
    /\ entry = "option::deserialize"
    /\ doc = Str("not a date")
    /\ res.ty = "DateTime<FixedOffset>" /\ res.opt
    /\ ~ res.r.ok
====
